---- MODULE Spec2Model ----
(***************************************************************************)
(* Model of the curling analytics chat agent (xuchef/cf_ai_curling).       *)
(*                                                                         *)
(*  - the React client `Chat` of src/src/server.ts (lines 295-835): the    *)
(*    message list, the tool-result observer, the shot lookups and the     *)
(*    visualization state;                                                 *)
(*  - the tools of src/src/tools.ts (their execute functions);             *)
(*  - the server turn `Chat.onChatMessage` of src/src/server.ts            *)
(*    (lines 34-110);                                                      *)
(*  - cleanupMessages of ./utils, which is imported at server.ts:13 but    *)
(*    whose file is not among the sources: it is modelled from spec.md.    *)
(***************************************************************************)
EXTENDS Integers, Sequences, FiniteSets, Bags, TLC

VARIABLES
    \* ---- client (function component Chat, server.ts:295)
    agentMessages,      \* messages of useAgentChat (server.ts:355)
    status,             \* status of useAgentChat (server.ts:358)
    cancelled,          \* stop of useAgentChat has cancelled the current turn
    nextCall,           \* the next fresh toolCallId the stream will carry
    submits,            \* number of handleAgentSubmit sends so far
    manuals,            \* number of shot-id input changes so far
    currentShot,        \* useState<CurrentShot | null> (server.ts:299)
    shotId,             \* useState(42) (server.ts:300)
    processedToolCalls, \* useState<Set<string>> (server.ts:301)
    lookups,            \* bag of fetches of handleShotQuery still in flight
    observerDue,        \* the tool-result effect (server.ts:436) has changed deps
    applyCount,         \* history: bag of the toolCallIds the observer dispatched on
    lastAccepted,       \* history: toolCallId the observer dispatched last
    shownBy,            \* history: which accepted output currentShot stems from
    appliedBehind       \* history: toolCallIds dispatched on while their message
                        \* was not the last of the list

clientVars == <<agentMessages, status, cancelled, nextCall, submits, manuals, currentShot,
                shotId, processedToolCalls, lookups, observerDue,
                applyCount, lastAccepted, shownBy, appliedBehind>>

VARIABLES
    \* ---- server turn (Chat.onChatMessage, server.ts:34)
    stage,              \* where the execute callback of the turn stands
    phase,              \* within streamText: the model generates, or tools run
    steps,              \* steps of streamText that have finished
    requested,          \* tool calls the model requested in the current step
    running,            \* tool executions of the current step not yet settled
    started,            \* tool executions the current step has started
    awaiting,           \* calls of the current step left input-available
    aborted,            \* _options.abortSignal has fired (server.ts:36)
    finish,             \* how the turn ended
    \* ---- sanitization (cleanupMessages, server.ts:51)
    history,            \* a stored history, this.messages
    cleanedMessages,    \* the result of the latest cleanupMessages
    firstClean,         \* the result of the first cleanupMessages
    passes              \* how often cleanupMessages has been applied

serverVars == <<stage, phase, steps, requested, running, started, awaiting, aborted, finish>>

sanitizerVars == <<history, cleanedMessages, firstClean, passes>>

VARIABLES
    \* ---- one execution of a tool (tools.ts)
    toolCall,           \* the tool, its validated input and the state of env.DB
    toolResult          \* what execute did: thrown or returned, and its DB use

toolVars == <<toolCall, toolResult>>

VARIABLES
    \* ---- the pipeline of one turn (execute callback, server.ts:49-106)
    turnStage,          \* where the callback stands
    turnMessages,       \* the list processToolCalls works on and returns
    cursor,             \* how many parts processToolCalls has visited
    decisions,          \* the user's decision on each call awaiting confirmation
    failing,            \* the toolCallIds whose execute throws
    outStream,          \* the events written to writer, in order
    modelMessages       \* the messages streamText was called with

turnVars == <<turnStage, turnMessages, cursor, decisions, failing, outStream,
              modelMessages>>

vars == <<clientVars, serverVars, sanitizerVars, toolVars, turnVars>>

----------------------------------------------------------------------------
(* Bounds of the model *)

MaxCalls == 1
MaxSubmits == 1
MaxManual == 1
MaxToolsPerStep == 2
MaxConfirmPerStep == 1
MaxHistory == 2
MaxParts == 2
MaxTurnParts == 2
MaxModelEvents == 2

(* Program constants *)

InitialShotId == 42
StepLimit == 10
NaN == -1

----------------------------------------------------------------------------
(* The query interface: GET /api/shot and env.DB *)

DbShots == {42, 7}

ShotIds == {42, 7, 9999}

DbStones(id) ==
    IF id = 42 THEN <<"red", "yellow">>
    ELSE IF id = 7 THEN <<"yellow">>
    ELSE <<>>

\* the JSON body of /api/shot?id=<id>
ApiShot(id) ==
    IF id \in DbShots
    THEN [success |-> TRUE, shot |-> {id}, stones |-> DbStones(id)]
    ELSE [success |-> FALSE, shot |-> {}, stones |-> <<>>]

----------------------------------------------------------------------------
(* Tools (tools.ts) *)

\* the registered tools, named by the type of their message parts
ToolNames ==
    {"tool-queryDatabase", "tool-queryShotDetails", "tool-visualizeCurlingShot",
     "tool-setShotId"}

\* the tools whose parts the client model receives; the observer has no
\* branch for queryDatabase nor for queryShotDetails, which stands for both
StreamedTools == ToolNames \ {"tool-queryDatabase"}

NoInput == [shotId |-> InitialShotId, stones |-> <<>>, query |-> <<>>]

\* the inputs the language model may send with each tool
VizInputs == { [shotId |-> 42, stones |-> <<"red">>, query |-> <<>>] }

ToolInputs(tool) ==
    CASE tool = "tool-setShotId" -> {[shotId |-> n, stones |-> <<>>, query |-> <<>>] : n \in {42, 9999}}
      [] tool = "tool-queryShotDetails" -> {[shotId |-> n, stones |-> <<>>, query |-> <<>>] : n \in {42, 9999}}
      [] tool = "tool-visualizeCurlingShot" -> VizInputs
      [] OTHER -> {NoInput}

\* the states of the database binding env.DB
DbStates == {"ok", "missing", "throws"}

NoOutput == [success |-> FALSE, shotId |-> InitialShotId, updateShotId |-> FALSE,
             visualization |-> {}, error |-> "none"]

\* return {success: false, error}
Failure(error) == [NoOutput EXCEPT !.error = error]

\* what a function body did: it returned output or threw; log is its use of
\* the query interface, in order
Returned(output, log) == [threw |-> FALSE, output |-> output, log |-> log]

Thrown(log) == [threw |-> TRUE, output |-> NoOutput, log |-> log]

\* (mutant) a body that is not wrapped in try/catch
NoCatch(r) == r

\* try { ... } catch (error) { return {success: false, error: ...} }
\* (tools.ts:103, 137-143 and 157, 229-235)
TryCatch(r) == IF r.threw THEN Returned(Failure("db error"), r.log) ELSE r

Select == <<"s", "e", "l", "e", "c", "t">>

LowerChar(c) ==
    CASE c = "S" -> "s" [] c = "E" -> "e" [] c = "L" -> "l"
      [] c = "C" -> "c" [] c = "T" -> "t" [] OTHER -> c

toLowerCase(q) == [i \in DOMAIN q |-> LowerChar(q[i])]

RECURSIVE trimStart(_)
trimStart(q) == IF q # <<>> /\ Head(q) = " " THEN trimStart(Tail(q)) ELSE q

RECURSIVE trimEnd(_)
trimEnd(q) ==
    IF q # <<>> /\ q[Len(q)] = " " THEN trimEnd(SubSeq(q, 1, Len(q) - 1)) ELSE q

trim(q) == trimEnd(trimStart(q))

startsWith(q, prefix) ==
    Len(q) >= Len(prefix) /\ SubSeq(q, 1, Len(prefix)) = prefix

\* (mutant) a queryDatabase that looks at the binding before the query text
queryDatabaseBindingFirst(query, db) ==
    IF db = "missing"
    THEN Returned(Failure("not configured"), <<"binding">>)
    ELSE IF ~startsWith(toLowerCase(trim(query)), Select)
    THEN Returned(Failure("not select"), <<"binding", "check">>)
    ELSE IF db = "throws"
    THEN Thrown(<<"binding", "check", "call">>)
    ELSE Returned([NoOutput EXCEPT !.success = TRUE], <<"binding", "check", "call">>)

\* the body of queryDatabase.execute (tools.ts:104-136)
queryDatabaseBody(query, db) ==
    IF ~startsWith(toLowerCase(trim(query)), Select)
    THEN Returned(Failure("not select"), <<"check">>)
    ELSE IF db = "missing"
    THEN Returned(Failure("not configured"), <<"check", "binding">>)
    ELSE IF db = "throws"
    THEN Thrown(<<"check", "binding", "call">>)
    ELSE Returned([NoOutput EXCEPT !.success = TRUE], <<"check", "binding", "call">>)

\* (mutant) a queryShotDetails that reports every shot as found
queryShotDetailsFindsAll(id, db) ==
    IF db = "missing"
    THEN Returned(Failure("not configured"), <<"binding">>)
    ELSE IF db = "throws"
    THEN Thrown(<<"binding", "call">>)
    ELSE Returned([NoOutput EXCEPT !.success = TRUE, !.shotId = id],
                  <<"binding", "call", "call">>)

\* the body of queryShotDetails.execute (tools.ts:158-228)
queryShotDetailsBody(id, db) ==
    IF db = "missing"
    THEN Returned(Failure("not configured"), <<"binding">>)
    ELSE IF db = "throws"
    THEN Thrown(<<"binding", "call">>)
    ELSE IF id \notin DbShots
    THEN Returned([Failure("not found") EXCEPT !.shotId = id], <<"binding", "call">>)
    ELSE Returned([NoOutput EXCEPT !.success = TRUE, !.shotId = id],
                  <<"binding", "call", "call">>)

\* execute of the tool, on a validated input, with env.DB in state db
Run(tool, input, db) ==
    CASE tool = "tool-queryDatabase" ->
            TryCatch(queryDatabaseBody(input.query, db))
      [] tool = "tool-queryShotDetails" ->
            TryCatch(queryShotDetailsBody(input.shotId, db))
      [] tool = "tool-visualizeCurlingShot" ->
            Returned([NoOutput EXCEPT
                        !.success = TRUE, !.shotId = input.shotId,
                        !.visualization =
                            {[shotId |-> input.shotId, stones |-> input.stones]}],
                     <<>>)
      [] tool = "tool-setShotId" ->
            Returned([NoOutput EXCEPT
                        !.success = TRUE, !.shotId = input.shotId,
                        !.updateShotId = TRUE],
                     <<>>)

\* the output of the tool in a deployment whose database answers
Execute(tool, input) == Run(tool, input, "ok").output

----------------------------------------------------------------------------
(* Messages and parts *)

TextPart ==
    [type |-> "text", toolCallId |-> 0, state |-> "done",
     input |-> NoInput, output |-> NoOutput]

ToolPart(tool, id, input) ==
    [type |-> tool, toolCallId |-> id, state |-> "input-available",
     input |-> input, output |-> NoOutput]

UserMessage == [role |-> "user", parts |-> <<TextPart>>]

\* the type of a tool part is "tool-" followed by the name of the tool, that
\* of a text part is "text"
isToolUIPart(part) == part.type # "text"

RECURSIVE AssistantParts(_)
\* the parts the observer visits, in the order of its two forEach loops
AssistantParts(msgs) ==
    IF msgs = <<>> THEN <<>>
    ELSE (IF Head(msgs).role = "assistant" THEN Head(msgs).parts ELSE <<>>)
         \o AssistantParts(Tail(msgs))

RECURSIVE AllParts(_)
AllParts(msgs) ==
    IF msgs = <<>> THEN <<>> ELSE Head(msgs).parts \o AllParts(Tail(msgs))

----------------------------------------------------------------------------
(* Client state *)

NullShot == [null |-> TRUE, stones |-> <<>>, shot |-> {}, shotInfo |-> {}]

----------------------------------------------------------------------------
(* handleShotQuery (server.ts:365-421): the fetch is left in flight; its    *)
(* response is handled by LookupComplete.  origin is history: the           *)
(* toolCallId whose dispatch started the fetch, 0 for none.                 *)

Lookup(id, origin) == [id |-> id, origin |-> origin]

handleShotQuery(id, origin) == SetToBag({Lookup(id, origin)})

\* the effect of server.ts:424-428, run after a render in which shotId went
\* from old to new: it fetches the new shot when shotId changed and is truthy
ShotIdEffect(old, new, origin) ==
    IF new # old /\ new # 0 /\ new # NaN
    THEN handleShotQuery(new, origin)
    ELSE EmptyBag

\* setCurrentShot(data) of server.ts:374
ShotFromData(data) ==
    [null |-> FALSE, stones |-> data.stones, shot |-> data.shot, shotInfo |-> {}]

\* (mutant) a visualization merged into the previous state
ShotMerged(viz) ==
    [currentShot EXCEPT !.null = FALSE, !.stones = viz.stones,
                        !.shotInfo = {viz.shotId}]

\* setCurrentShot({stones, shotInfo}) of server.ts:472-480
ShotFromViz(viz) ==
    [null |-> FALSE, stones |-> viz.stones, shot |-> {}, shotInfo |-> {viz.shotId}]

\* sendMessage of useAgentChat: the user message joins the list, a turn starts
sendMessage(msgs) == Append(msgs, UserMessage)

----------------------------------------------------------------------------
(* The tool-result observer (server.ts:436-503) *)

\* server.ts:441-447; seen is the set the effect closure captured
Unprocessed(part, seen) ==
    /\ isToolUIPart(part)
    /\ part.state = "output-available"
    /\ part.toolCallId \notin seen

\* server.ts:455-459
IsVisualization(part) ==
    /\ part.type = "tool-visualizeCurlingShot"
    /\ part.output.success
    /\ part.output.visualization # {}

\* (mutant) a setShotId branch that does not look at the tool name
IsSetShotIdLoose(part) == part.output.success

\* server.ts:486-490
IsSetShotId(part) ==
    /\ part.type = "tool-setShotId"
    /\ part.output.success
    /\ part.output.updateShotId

\* (mutant) a pass that dispatches on, and records, every output it has not seen
DispatchedAny(msgs, seen) ==
    SelectSeq(AssistantParts(msgs), LAMBDA p : Unprocessed(p, seen))

\* (mutant) a pass that looks at the last message only
DispatchedLast(msgs, seen) ==
    SelectSeq(IF msgs = <<>> THEN <<>> ELSE AssistantParts(<<msgs[Len(msgs)]>>),
              LAMBDA p : Unprocessed(p, seen) /\ (IsVisualization(p) \/ IsSetShotId(p)))

\* the parts one pass dispatches on, in order
Dispatched(msgs, seen) ==
    SelectSeq(AssistantParts(msgs),
              LAMBDA p : Unprocessed(p, seen) /\ (IsVisualization(p) \/ IsSetShotId(p)))

Last(seq) == seq[Len(seq)]

Front(seq) == SubSeq(seq, 1, Len(seq) - 1)

Range(seq) == {seq[i] : i \in DOMAIN seq}

\* (mutant) a setShotId branch that does not call handleShotQuery
LookupsNone(parts) == EmptyBag

RECURSIVE LookupsOf(_)
\* one handleShotQuery(newShotId) per dispatched setShotId part (server.ts:495)
LookupsOf(parts) ==
    IF parts = <<>> THEN EmptyBag
    ELSE (IF IsSetShotId(Head(parts))
          THEN handleShotQuery(Head(parts).output.shotId, Head(parts).toolCallId)
          ELSE EmptyBag) (+) LookupsOf(Tail(parts))

RECURSIVE DispatchLog(_)
DispatchLog(parts) ==
    IF parts = <<>> THEN EmptyBag
    ELSE SetToBag({Head(parts).toolCallId}) (+) DispatchLog(Tail(parts))

\* (mutant) dispatch branches that never call setProcessedToolCalls
IdsOfNone(parts) == {}

\* setProcessedToolCalls(prev => new Set(prev).add(toolCallId)), server.ts:482, 497
IdsOf(parts) == {parts[i].toolCallId : i \in DOMAIN parts}

ObserverPass ==
    /\ observerDue
    /\ LET done == Dispatched(agentMessages, processedToolCalls)
           vizs == SelectSeq(done, IsVisualization)
           sets == SelectSeq(done, IsSetShotId)
           newShotId == IF sets = <<>> THEN shotId ELSE Last(sets).output.shotId
       IN  /\ currentShot' =
                IF vizs = <<>> THEN currentShot
                ELSE ShotFromViz(CHOOSE v \in Last(vizs).output.visualization : TRUE)
           /\ shownBy' = IF vizs = <<>> THEN shownBy ELSE Last(vizs).toolCallId
           /\ shotId' = newShotId
           /\ lookups' = lookups (+) LookupsOf(done)
                          (+) ShotIdEffect(shotId, newShotId,
                                           IF sets = <<>> THEN 0 ELSE Last(sets).toolCallId)
           /\ processedToolCalls' = processedToolCalls \cup IdsOf(done)
           /\ applyCount' = applyCount (+) DispatchLog(done)
           /\ lastAccepted' = IF done = <<>> THEN lastAccepted ELSE Last(done).toolCallId
           \* a new Set is a changed dependency: the effect runs again
           /\ observerDue' = (done # <<>>)
    /\ UNCHANGED <<agentMessages, status, nextCall, submits, manuals>>
    /\ UNCHANGED <<serverVars, sanitizerVars, toolVars, turnVars>>
    /\ UNCHANGED cancelled
    /\ appliedBehind' = appliedBehind \cup
          IdsOf(Dispatched(Front(agentMessages), processedToolCalls))

\* the response of a fetch reaches handleShotQuery (server.ts:370-403)
LookupComplete(l) ==
    /\ BagIn(l, lookups)
    /\ lookups' = lookups (-) SetToBag({l})
    /\ LET data == ApiShot(l.id)
       IN  IF data.success /\ data.shot # {}
           THEN /\ currentShot' = ShotFromData(data)
                /\ shownBy' = l.origin
                /\ UNCHANGED <<agentMessages, status, cancelled, observerDue>>
           ELSE /\ agentMessages' = sendMessage(agentMessages)
                /\ status' = "submitted"
                /\ cancelled' = FALSE
                /\ observerDue' = TRUE
                /\ UNCHANGED <<currentShot, shownBy>>
    /\ UNCHANGED <<nextCall, submits, manuals, shotId, processedToolCalls,
                   applyCount, lastAccepted, appliedBehind>>
    /\ UNCHANGED <<serverVars, sanitizerVars, toolVars, turnVars>>

\* the shot-id input (server.ts:558-574)
ManualInputs == {7, NaN}

ShotIdInput(value) ==
    /\ manuals' = manuals + 1
    /\ shotId' = value
    /\ lookups' = (IF value # NaN THEN lookups (+) handleShotQuery(value, 0) ELSE lookups)
                   (+) ShotIdEffect(shotId, value, 0)
    /\ UNCHANGED <<agentMessages, status, nextCall, submits, currentShot,
                   processedToolCalls, observerDue, applyCount, lastAccepted, shownBy>>
    /\ UNCHANGED <<serverVars, sanitizerVars, toolVars, turnVars>>
    /\ UNCHANGED <<cancelled, appliedBehind>>

----------------------------------------------------------------------------
(* Confirmation of tool calls by the user (server.ts:289-293, 505-515) *)

\* (mutant) a list that names setShotId as needing confirmation
ConfirmSetShotId == {"tool-setShotId"}

\* the list of server.ts:289-293, by part type; it is empty
toolsRequiringConfirmation == {}

\* each tool of tools.ts:306-311 declares execute (tools.ts:102, 156, 263, 293)
HasExecute(tool) ==
    tool \in {"tool-queryDatabase", "tool-queryShotDetails",
              "tool-visualizeCurlingShot", "tool-setShotId"}

\* server.ts:505-515; it disables the message input (server.ts:779, 819)
pendingToolCallConfirmation(msgs) ==
    \E i \in DOMAIN msgs : \E j \in DOMAIN msgs[i].parts :
       LET part == msgs[i].parts[j]
       IN  /\ isToolUIPart(part)
           /\ part.state = "input-available"
           /\ part.type \in toolsRequiringConfirmation

----------------------------------------------------------------------------
(* The message list of useAgentChat (server.ts:354-363) *)

Streaming == status \in {"submitted", "streaming"}

\* handleAgentSubmit (server.ts:332-352), for a non-blank input
handleAgentSubmit ==
    /\ submits' = submits + 1
    /\ agentMessages' = sendMessage(agentMessages)
    /\ status' = "submitted"
    /\ observerDue' = TRUE
    /\ UNCHANGED <<nextCall, manuals, currentShot, shotId, processedToolCalls,
                   lookups, applyCount, lastAccepted, shownBy>>
    /\ UNCHANGED <<serverVars, sanitizerVars, toolVars, turnVars>>
    /\ cancelled' = FALSE
    /\ UNCHANGED appliedBehind

\* a tool-call event: the part joins the assistant message of the turn
WithPart(msgs, part) ==
    IF msgs # <<>> /\ Last(msgs).role = "assistant"
    THEN [msgs EXCEPT ![Len(msgs)].parts = Append(@, part)]
    ELSE Append(msgs, [role |-> "assistant", parts |-> <<part>>])

StreamToolCall(tool, input) ==
    /\ Streaming
    /\ agentMessages' = WithPart(agentMessages, ToolPart(tool, nextCall, input))
    /\ nextCall' = nextCall + 1
    /\ status' = "streaming"
    /\ observerDue' = TRUE
    /\ UNCHANGED <<submits, manuals, currentShot, shotId, processedToolCalls,
                   lookups, applyCount, lastAccepted, shownBy>>
    /\ UNCHANGED <<serverVars, sanitizerVars, toolVars, turnVars>>
    /\ UNCHANGED <<cancelled, appliedBehind>>

\* a tool-result event, for a part of any message
StreamToolResult(i, j) ==
    /\ Streaming
    /\ agentMessages[i].parts[j].state = "input-available"
    /\ LET part == agentMessages[i].parts[j]
           r == Run(part.type, part.input, "ok")
       IN  agentMessages' =
             [agentMessages EXCEPT ![i].parts[j] =
                 [part EXCEPT !.state = IF r.threw THEN "output-error"
                                        ELSE "output-available",
                              !.output = r.output]]
    /\ status' = "streaming"
    /\ observerDue' = TRUE
    /\ UNCHANGED <<nextCall, submits, manuals, currentShot, shotId,
                   processedToolCalls, lookups, applyCount,
                   lastAccepted, shownBy>>
    /\ UNCHANGED <<serverVars, sanitizerVars, toolVars, turnVars>>
    /\ UNCHANGED <<cancelled, appliedBehind>>

Pending(msgs) ==
    \E i \in DOMAIN msgs : \E j \in DOMAIN msgs[i].parts :
        msgs[i].parts[j].state = "input-available"

\* the finish event: it follows the results of the calls of the turn
StreamFinish ==
    /\ Streaming
    /\ ~Pending(agentMessages)
    /\ status' = "ready"
    /\ UNCHANGED <<agentMessages, nextCall, submits, manuals, currentShot, shotId,
                   processedToolCalls, lookups, observerDue,
                   applyCount, lastAccepted, shownBy>>
    /\ UNCHANGED <<serverVars, sanitizerVars, toolVars, turnVars>>
    /\ UNCHANGED <<cancelled, appliedBehind>>

\* (mutant) a stop that rolls the visualization back
StopRollsBack ==
    /\ Streaming
    /\ status' = "ready"
    /\ currentShot' = NullShot
    /\ UNCHANGED <<agentMessages, nextCall, submits, manuals, shotId, processedToolCalls,
                   lookups, observerDue, applyCount, lastAccepted, shownBy>>
    /\ UNCHANGED <<serverVars, sanitizerVars, toolVars, turnVars>>
    /\ cancelled' = TRUE
    /\ UNCHANGED appliedBehind

\* the Stop generation button (server.ts:806-814)
Stop ==
    /\ Streaming
    /\ status' = "ready"
    /\ UNCHANGED <<agentMessages, nextCall, submits, manuals, currentShot, shotId,
                   processedToolCalls, lookups, observerDue,
                   applyCount, lastAccepted, shownBy>>
    /\ UNCHANGED <<serverVars, sanitizerVars, toolVars, turnVars>>
    /\ cancelled' = TRUE
    /\ UNCHANGED appliedBehind

\* (mutant) a clearHistory that also forgets the processed calls
ClearHistoryForgets ==
    /\ agentMessages # <<>>
    /\ agentMessages' = <<>>
    /\ processedToolCalls' = {}
    /\ observerDue' = TRUE
    /\ UNCHANGED <<status, nextCall, submits, manuals, currentShot, shotId,
                   lookups, applyCount, lastAccepted, shownBy>>
    /\ UNCHANGED <<serverVars, sanitizerVars, toolVars, turnVars>>
    /\ UNCHANGED <<cancelled, appliedBehind>>

\* the clearHistory button (server.ts:586-594)
ClearHistory ==
    /\ agentMessages # <<>>
    /\ agentMessages' = <<>>
    /\ observerDue' = TRUE
    /\ UNCHANGED <<status, nextCall, submits, manuals, currentShot, shotId,
                   processedToolCalls, lookups, applyCount,
                   lastAccepted, shownBy>>
    /\ UNCHANGED <<serverVars, sanitizerVars, toolVars, turnVars>>
    /\ UNCHANGED <<cancelled, appliedBehind>>

Settled(part) == isToolUIPart(part) /\ part.state = "output-available"

\* the hook presents a list in which an assistant message occurs again
Redeliver(i) ==
    /\ agentMessages[i].role = "assistant"
    /\ \A j \in DOMAIN agentMessages[i].parts : Settled(agentMessages[i].parts[j])
    /\ \A k \in DOMAIN agentMessages : k # i => agentMessages[k] # agentMessages[i]
    /\ agentMessages' = Append(agentMessages, agentMessages[i])
    /\ observerDue' = TRUE
    /\ UNCHANGED <<status, nextCall, submits, manuals, currentShot, shotId,
                   processedToolCalls, lookups, applyCount,
                   lastAccepted, shownBy>>
    /\ UNCHANGED <<serverVars, sanitizerVars, toolVars, turnVars>>
    /\ UNCHANGED <<cancelled, appliedBehind>>

\* a re-render presents the same list again under a new reference
Rerender ==
    /\ ~observerDue
    /\ observerDue' = TRUE
    /\ UNCHANGED <<agentMessages, status, nextCall, submits, manuals, currentShot,
                   shotId, processedToolCalls, lookups,
                   applyCount, lastAccepted, shownBy>>
    /\ UNCHANGED <<serverVars, sanitizerVars, toolVars, turnVars>>
    /\ UNCHANGED <<cancelled, appliedBehind>>

InitClient ==
    /\ agentMessages = <<>>
    /\ status = "ready"
    /\ cancelled = FALSE
    /\ nextCall = 1
    /\ submits = 0
    /\ manuals = 0
    /\ currentShot = NullShot
    /\ shotId = InitialShotId
    /\ processedToolCalls = {}
    \* both effects have run once on mount: the shot-load effect has started
    \* the fetch of the initial shot, the observer has passed over no message
    /\ lookups = ShotIdEffect(NaN, InitialShotId, 0)
    /\ observerDue = FALSE
    /\ applyCount = EmptyBag
    /\ lastAccepted = 0
    /\ shownBy = 0
    /\ appliedBehind = {}

ServerIdle ==
    /\ stage = "idle"
    /\ phase = "model"
    /\ steps = 0
    /\ requested = 0
    /\ running = 0
    /\ started = 0
    /\ awaiting = 0
    /\ aborted = FALSE
    /\ finish = "none"

SanitizerIdle ==
    /\ history = <<>>
    /\ cleanedMessages = <<>>
    /\ firstClean = <<>>
    /\ passes = 0

ToolIdle ==
    /\ toolCall = [tool |-> "none", input |-> NoInput, db |-> "ok"]
    /\ toolResult = [phase |-> "idle", run |-> Returned(NoOutput, <<>>)]

TurnIdle ==
    /\ turnStage = "idle"
    /\ turnMessages = <<>>
    /\ cursor = 0
    /\ decisions = <<>>
    /\ failing = {}
    /\ outStream = <<>>
    /\ modelMessages = <<>>

Init == InitClient /\ ServerIdle /\ SanitizerIdle /\ ToolIdle /\ TurnIdle

Next ==
    \/ ObserverPass
    \/ \E l \in BagToSet(lookups) : LookupComplete(l)
    \/ manuals < MaxManual /\ \E v \in ManualInputs : ShotIdInput(v)
    \/ submits < MaxSubmits /\ handleAgentSubmit
    \/ /\ nextCall <= MaxCalls
       /\ \E tool \in StreamedTools : \E input \in ToolInputs(tool) :
             StreamToolCall(tool, input)
    \/ \E i \in DOMAIN agentMessages : \E j \in DOMAIN agentMessages[i].parts :
          StreamToolResult(i, j)
    \/ StreamFinish
    \/ Stop
    \/ ClearHistory
    \/ Rerender

Spec == Init /\ [][Next]_vars

----------------------------------------------------------------------------
(* The client with a hook that may present an assistant message twice *)

NextRedeliver ==
    \/ Next
    \/ \E i \in DOMAIN agentMessages : Redeliver(i)

RedeliverSpec == Init /\ [][NextRedeliver]_vars

----------------------------------------------------------------------------
(* The scenario of spec.md section 8: one user message "shot 42"; the model *)
(* requests setShotId(42), then queryShotDetails(42), then                  *)
(* visualizeCurlingShot(...), in one turn.                                  *)

ScenarioVizInputs ==
    { [shotId |-> 42, stones |-> <<"red">>, query |-> <<>>],
      [shotId |-> 42, stones |-> <<"red", "yellow">>, query |-> <<>>] }

ScenarioCall ==
    \/ nextCall = 1 /\ StreamToolCall("tool-setShotId", [shotId |-> 42, stones |-> <<>>, query |-> <<>>])
    \/ nextCall = 2 /\ StreamToolCall("tool-queryShotDetails", [shotId |-> 42, stones |-> <<>>, query |-> <<>>])
    \/ nextCall = 3 /\ \E input \in ScenarioVizInputs :
                          StreamToolCall("tool-visualizeCurlingShot", input)

NextScenario ==
    \/ submits = 0 /\ handleAgentSubmit
    \/ ScenarioCall
    \/ \E i \in DOMAIN agentMessages : \E j \in DOMAIN agentMessages[i].parts :
          StreamToolResult(i, j)
    \/ StreamFinish
    \/ ObserverPass
    \/ \E l \in BagToSet(lookups) : LookupComplete(l)

ScenarioSpec == Init /\ [][NextScenario]_vars

----------------------------------------------------------------------------
(* The client with a user who sends a second message while the first turn   *)
(* is still streaming: tool results then arrive for a message that is not   *)
(* the last of the list.                                                    *)

NextFollowUp ==
    \/ submits < 2 /\ handleAgentSubmit
    \/ /\ nextCall <= MaxCalls
       /\ \E tool \in StreamedTools : \E input \in ToolInputs(tool) :
             StreamToolCall(tool, input)
    \/ \E i \in DOMAIN agentMessages : \E j \in DOMAIN agentMessages[i].parts :
          StreamToolResult(i, j)
    \/ StreamFinish
    \/ ObserverPass
    \/ \E l \in BagToSet(lookups) : LookupComplete(l)

FollowUpSpec == Init /\ [][NextFollowUp]_vars

\* the same client, in which an effect that is due runs and a fetch that is
\* in flight is answered
FollowUpLiveSpec ==
    /\ Init
    /\ [][NextFollowUp]_vars
    /\ WF_vars(ObserverPass)
    /\ WF_vars(\E l \in BagToSet(lookups) : LookupComplete(l))

----------------------------------------------------------------------------
(* The server turn: Chat.onChatMessage (server.ts:34-110).  The execute     *)
(* callback of createUIMessageStream cleans the stored messages, awaits     *)
(* processToolCalls, then calls streamText with stopWhen: stepCountIs(10)   *)
(* and merges its stream.  The abort signal arrives in _options, which the  *)
(* method never reads: streamText is called without abortSignal.            *)

\* (mutant) a stop condition that compares with > instead of ===
StopWhenLate(n) == n > StepLimit

\* stopWhen: stepCountIs(10) (server.ts:102), asked after n finished steps
StopWhen(n) == n = StepLimit

\* createUIMessageStream starts the execute callback (server.ts:48-49)
StartTurn ==
    /\ stage = "idle"
    /\ stage' = "sanitize"
    /\ UNCHANGED <<phase, steps, requested, running, started, awaiting, aborted, finish>>
    /\ UNCHANGED <<clientVars, sanitizerVars, toolVars, turnVars>>

\* cleanupMessages(this.messages) (server.ts:51)
SanitizeStage ==
    /\ stage = "sanitize"
    /\ stage' = "process"
    /\ UNCHANGED <<phase, steps, requested, running, started, awaiting, aborted, finish>>
    /\ UNCHANGED <<clientVars, sanitizerVars, toolVars, turnVars>>

\* await processToolCalls(...) (server.ts:55-60), then streamText (server.ts:62)
ProcessStage ==
    /\ stage = "process"
    /\ stage' = "loop"
    /\ phase' = "model"
    /\ UNCHANGED <<steps, requested, running, started, awaiting, aborted, finish>>
    /\ UNCHANGED <<clientVars, sanitizerVars, toolVars, turnVars>>

\* the calls a step may make to tools that must be confirmed by the user and
\* declare no execute; tools.ts registers no such tool, the tools merged in
\* from this.mcp.getAITools() (server.ts:43-46) are open
ConfirmCalls == 0..MaxConfirmPerStep

\* (mutant) a step that executes the calls awaiting confirmation too
ModelStepRunsAll(k, c) ==
    /\ stage = "loop"
    /\ phase = "model"
    /\ phase' = "tools"
    /\ requested' = k + c
    /\ running' = k + c
    /\ started' = k + c
    /\ awaiting' = c
    /\ UNCHANGED <<stage, steps, aborted, finish>>
    /\ UNCHANGED <<clientVars, sanitizerVars, toolVars, turnVars>>

\* one step of streamText: the model answers with k calls to tools that
\* declare execute, as every tool of tools.ts does, and c calls to tools
\* that do not; each of the k calls starts executing at once
ModelStep(k, c) ==
    /\ stage = "loop"
    /\ phase = "model"
    /\ phase' = "tools"
    /\ requested' = k + c
    /\ running' = k
    /\ started' = k
    /\ awaiting' = c
    /\ UNCHANGED <<stage, steps, aborted, finish>>
    /\ UNCHANGED <<clientVars, sanitizerVars, toolVars, turnVars>>

\* the execute of one tool call settles
ToolSettles ==
    /\ stage = "loop"
    /\ phase = "tools"
    /\ running > 0
    /\ running' = running - 1
    /\ UNCHANGED <<stage, phase, steps, requested, started, awaiting, aborted, finish>>
    /\ UNCHANGED <<clientVars, sanitizerVars, toolVars, turnVars>>

\* (mutant) a step that ends without waiting for its tool executions
StepFinishEarly ==
    /\ stage = "loop"
    /\ phase = "tools"
    /\ steps' = steps + 1
    /\ IF requested > 0 /\ awaiting = 0 /\ ~StopWhen(steps')
       THEN /\ phase' = "model"
            /\ UNCHANGED <<stage, finish>>
       ELSE /\ stage' = "done"
            /\ finish' = "finish"
            /\ UNCHANGED phase
    /\ UNCHANGED <<requested, running, started, awaiting, aborted>>
    /\ UNCHANGED <<clientVars, sanitizerVars, toolVars, turnVars>>

\* the step ends once its tools have settled; streamText goes on to another
\* step when the step made tool calls, every call has its result and
\* stopWhen does not hold
StepFinish ==
    /\ stage = "loop"
    /\ phase = "tools"
    /\ running = 0
    /\ steps' = steps + 1
    /\ IF requested > 0 /\ awaiting = 0 /\ ~StopWhen(steps')
       THEN /\ phase' = "model"
            /\ UNCHANGED <<stage, finish>>
       ELSE /\ stage' = "done"
            /\ finish' = "finish"
            /\ UNCHANGED phase
    /\ UNCHANGED <<requested, running, started, awaiting, aborted>>
    /\ UNCHANGED <<clientVars, sanitizerVars, toolVars, turnVars>>

\* the model provider fails while generating: the stream ends with an error
ModelError ==
    /\ stage = "loop"
    /\ phase = "model"
    /\ stage' = "done"
    /\ finish' = "error"
    /\ UNCHANGED <<phase, steps, requested, running, started, awaiting, aborted>>
    /\ UNCHANGED <<clientVars, sanitizerVars, toolVars, turnVars>>

\* the abort signal of the turn fires, once (server.ts:36)
Abort ==
    /\ stage \notin {"idle", "done"}
    /\ ~aborted
    /\ aborted' = TRUE
    /\ UNCHANGED <<stage, phase, steps, requested, running, started, awaiting, finish>>
    /\ UNCHANGED <<clientVars, sanitizerVars, toolVars, turnVars>>

NextServer ==
    \/ StartTurn
    \/ SanitizeStage
    \/ ProcessStage
    \/ \E k \in 0..MaxToolsPerStep : \E c \in ConfirmCalls : ModelStep(k, c)
    \/ ToolSettles
    \/ StepFinish
    \/ ModelError
    \/ Abort

ServerSpec == Init /\ [][NextServer]_vars

\* the steps streamText has begun so far
StepsBegun == steps + (IF stage = "loop" /\ phase = "tools" THEN 1 ELSE 0)

----------------------------------------------------------------------------
(* Sanitization: cleanupMessages of ./utils (server.ts:13, 51), modelled    *)
(* from spec.md section 4.1.                                                *)

\* a tool-invocation part in input-available, for which no output was recorded
Incomplete(part) == isToolUIPart(part) /\ part.state = "input-available"

\* (mutant) a sanitizer that drops one trailing part and stops
cleanupOnce(h) ==
    IF h = <<>> \/ Last(h).parts = <<>> \/ ~Incomplete(Last(Last(h).parts))
    THEN h
    ELSE IF Len(Last(h).parts) = 1
         THEN Front(h)
         ELSE [h EXCEPT ![Len(h)].parts = Front(@)]

\* (mutant) a sanitizer that drops every message holding an incomplete part
cleanupEvery(h) ==
    SelectSeq(h, LAMBDA m : \A j \in DOMAIN m.parts : ~Incomplete(m.parts[j]))

RECURSIVE cleanupMessages(_)
\* a trailing incomplete part is dropped, with its message when the message
\* becomes empty; this until the history ends with no such part
cleanupMessages(h) ==
    IF h = <<>> \/ Last(h).parts = <<>> \/ ~Incomplete(Last(Last(h).parts))
    THEN h
    ELSE IF Len(Last(h).parts) = 1
         THEN cleanupMessages(Front(h))
         ELSE cleanupMessages([h EXCEPT ![Len(h)].parts = Front(@)])

\* the parts a stored message may consist of
HistoryParts ==
    { TextPart,
      ToolPart("tool-queryDatabase", 1, NoInput),
      [ToolPart("tool-queryDatabase", 2, NoInput) EXCEPT
          !.state = "output-available",
          !.output = Execute("tool-queryDatabase", NoInput)] }

SeqsUpTo(S, n) == UNION {[1..k -> S] : k \in 1..n}

\* the stored messages: each has at least one part
HistoryMessages ==
    {[role |-> "assistant", parts |-> ps] : ps \in SeqsUpTo(HistoryParts, MaxParts)}

Histories == {<<>>} \cup SeqsUpTo(HistoryMessages, MaxHistory)

SanitizerInputs ==
    /\ history \in Histories
    /\ cleanedMessages = history
    /\ firstClean = history
    /\ passes = 0

InitSanitizer == InitClient /\ ServerIdle /\ SanitizerInputs /\ ToolIdle /\ TurnIdle

\* const cleanedMessages = cleanupMessages(...) (server.ts:51)
Sanitize ==
    /\ passes = 0
    /\ cleanedMessages' = cleanupMessages(history)
    /\ firstClean' = cleanedMessages'
    /\ passes' = 1
    /\ UNCHANGED history
    /\ UNCHANGED <<clientVars, serverVars, toolVars, turnVars>>

\* cleanupMessages applied to its own result
SanitizeAgain ==
    /\ passes = 1
    /\ cleanedMessages' = cleanupMessages(cleanedMessages)
    /\ passes' = 2
    /\ UNCHANGED <<history, firstClean>>
    /\ UNCHANGED <<clientVars, serverVars, toolVars, turnVars>>

NextSanitizer == Sanitize \/ SanitizeAgain

SanitizerSpec == InitSanitizer /\ [][NextSanitizer]_vars

----------------------------------------------------------------------------
(* The pipeline of one turn (server.ts:49-106): cleanupMessages, then        *)
(* await processToolCalls, then streamText on the processed messages, whose  *)
(* stream is merged into writer.  processToolCalls of ./utils (server.ts:13) *)
(* is modelled from spec.md section 4.2.                                     *)

\* tools that must be confirmed by the user before they run
ConfirmTools == {"tool-confirm"}

\* allTools (server.ts:43-46): the tools of tools.ts and the tools merged in
Registry == ToolNames \cup ConfirmTools

Decisions == {"none", "approve", "reject"}

\* (mutant) an execution whose exception is not caught
ExecutedUncaught(part, fails) ==
    IF fails
    THEN [part EXCEPT !.state = "threw"]
    ELSE [part EXCEPT !.state = "output-available",
                      !.output = IF part.type \in ToolNames
                                 THEN Execute(part.type, part.input)
                                 ELSE [NoOutput EXCEPT !.success = TRUE]]

\* the tool is executed; an exception of execute becomes output-error
Executed(part, fails) ==
    IF fails
    THEN [part EXCEPT !.state = "output-error", !.output = Failure("threw")]
    ELSE [part EXCEPT !.state = "output-available",
                      !.output = IF part.type \in ToolNames
                                 THEN Execute(part.type, part.input)
                                 ELSE [NoOutput EXCEPT !.success = TRUE]]

\* the call is one the processor has to run
ShouldExecute(part, decision) ==
    /\ isToolUIPart(part) /\ part.state = "input-available"
    /\ part.type \in Registry
    /\ part.type \in ConfirmTools => decision = "approve"

\* (mutant) a processor that passes over calls to tools it does not know
ResolveKnown(part, decision, fails) ==
    IF ShouldExecute(part, decision) THEN Executed(part, fails) ELSE part

\* the state machine of one tool call (spec.md section 4.2)
Resolve(part, decision, fails) ==
    IF ~isToolUIPart(part) \/ part.state # "input-available"
    THEN part
    ELSE IF part.type \notin Registry
    THEN [part EXCEPT !.state = "output-error", !.output = Failure("unknown tool")]
    ELSE IF part.type \in ConfirmTools /\ decision = "none"
    THEN part
    ELSE IF part.type \in ConfirmTools /\ decision = "reject"
    THEN [part EXCEPT !.state = "output-available", !.output = Failure("skipped")]
    ELSE Executed(part, fails)

RECURSIVE PositionsFrom(_, _)
\* the parts of a list, as <<message, part>> indices in the order of the walk
PositionsFrom(msgs, i) ==
    IF i > Len(msgs) THEN <<>>
    ELSE [j \in 1..Len(msgs[i].parts) |-> <<i, j>>] \o PositionsFrom(msgs, i + 1)

Positions(msgs) == PositionsFrom(msgs, 1)

DecisionOn(part) ==
    IF part.toolCallId \in DOMAIN decisions THEN decisions[part.toolCallId] ELSE "none"

\* the kinds of part an assistant message of the stored history may hold
TurnPartKinds == {"text", "run", "confirm", "unknown", "settled"}

TurnPart(kind, id) ==
    CASE kind = "text" -> TextPart
      [] kind = "run" ->
            ToolPart("tool-queryShotDetails", id, [NoInput EXCEPT !.shotId = 42])
      [] kind = "confirm" -> ToolPart("tool-confirm", id, NoInput)
      [] kind = "unknown" -> ToolPart("tool-unknown", id, NoInput)
      [] kind = "settled" ->
            [ToolPart("tool-setShotId", id, NoInput) EXCEPT
                !.state = "output-available",
                !.output = Execute("tool-setShotId", NoInput)]

\* the stored histories: a user message, an assistant message, and perhaps
\* the user message that opens the turn
TurnHistories ==
    { <<UserMessage, [role |-> "assistant",
                      parts |-> [j \in DOMAIN ks |-> TurnPart(ks[j], j)]]>> \o tail :
        ks \in SeqsUpTo(TurnPartKinds, MaxTurnParts),
        tail \in {<<>>, <<UserMessage>>} }

PendingIds(msgs, tools) ==
    {p.toolCallId : p \in {q \in Range(AllParts(msgs)) :
                              q.state = "input-available" /\ q.type \in tools}}

InitTurn ==
    /\ InitClient /\ ServerIdle /\ ToolIdle
    /\ history \in TurnHistories
    /\ cleanedMessages = <<>>
    /\ firstClean = <<>>
    /\ passes = 0
    /\ turnStage = "sanitize"
    /\ turnMessages = <<>>
    /\ cursor = 0
    /\ decisions \in [PendingIds(history, ConfirmTools) -> Decisions]
    /\ failing \in SUBSET PendingIds(history, Registry)
    /\ outStream = <<>>
    /\ modelMessages = <<>>

\* const cleanedMessages = cleanupMessages(this.messages) (server.ts:51)
TurnSanitize ==
    /\ turnStage = "sanitize"
    /\ cleanedMessages' = cleanupMessages(history)
    /\ turnMessages' = cleanedMessages'
    /\ turnStage' = "process"
    /\ UNCHANGED <<history, firstClean, passes>>
    /\ UNCHANGED <<cursor, decisions, failing, outStream, modelMessages>>
    /\ UNCHANGED <<clientVars, serverVars, toolVars>>

\* processToolCalls visits the next part; a call it resolves is reported on
\* dataStream (the writer); an exception it lets through ends the callback
ProcessCall ==
    /\ turnStage = "process"
    /\ cursor < Len(Positions(turnMessages))
    /\ LET pos == Positions(turnMessages)[cursor + 1]
           part == turnMessages[pos[1]].parts[pos[2]]
           new == Resolve(part, DecisionOn(part), part.toolCallId \in failing)
       IN  IF new.state = "threw"
           THEN /\ turnStage' = "failed"
                /\ UNCHANGED <<turnMessages, outStream, cursor>>
           ELSE /\ turnMessages' = [turnMessages EXCEPT ![pos[1]].parts[pos[2]] = new]
                /\ outStream' =
                      IF new # part
                      THEN Append(outStream, [from |-> "processor",
                                              toolCallId |-> part.toolCallId])
                      ELSE outStream
                /\ cursor' = cursor + 1
                /\ UNCHANGED turnStage
    /\ UNCHANGED <<decisions, failing, modelMessages>>
    /\ UNCHANGED <<clientVars, serverVars, sanitizerVars, toolVars>>

\* (mutant) streamText is called with the stored messages
ProcessReturnRaw ==
    /\ turnStage = "process"
    /\ cursor = Len(Positions(turnMessages))
    /\ modelMessages' = history
    /\ turnStage' = "loop"
    /\ UNCHANGED <<turnMessages, cursor, decisions, failing, outStream>>
    /\ UNCHANGED <<clientVars, serverVars, sanitizerVars, toolVars>>

\* the await of processToolCalls returns (server.ts:55); streamText is called
\* with messages: convertToModelMessages(processedMessages) (server.ts:96)
ProcessReturn ==
    /\ turnStage = "process"
    /\ cursor = Len(Positions(turnMessages))
    /\ modelMessages' = turnMessages
    /\ turnStage' = "loop"
    /\ UNCHANGED <<turnMessages, cursor, decisions, failing, outStream>>
    /\ UNCHANGED <<clientVars, serverVars, sanitizerVars, toolVars>>

ModelEvents == SelectSeq(outStream, LAMBDA ev : ev.from = "model")

\* writer.merge(result.toUIMessageStream()) (server.ts:105): an event of the
\* model loop reaches the outgoing stream
ModelEvent ==
    /\ turnStage = "loop"
    /\ Len(ModelEvents) < MaxModelEvents
    /\ outStream' = Append(outStream, [from |-> "model", toolCallId |-> 0])
    /\ UNCHANGED <<turnStage, turnMessages, cursor, decisions, failing, modelMessages>>
    /\ UNCHANGED <<clientVars, serverVars, sanitizerVars, toolVars>>

\* the finish event of the model loop
TurnFinish ==
    /\ turnStage = "loop"
    /\ turnStage' = "done"
    /\ UNCHANGED <<turnMessages, cursor, decisions, failing, outStream, modelMessages>>
    /\ UNCHANGED <<clientVars, serverVars, sanitizerVars, toolVars>>

NextTurn ==
    \/ TurnSanitize
    \/ ProcessCall
    \/ ProcessReturn
    \/ ModelEvent
    \/ TurnFinish

TurnSpec == InitTurn /\ [][NextTurn]_vars

----------------------------------------------------------------------------
(* One execution of a tool: the AI SDK calls execute with an input that      *)
(* passed the inputSchema; env.DB is in one of its states.                   *)

\* SQL texts, as sequences of characters
Queries ==
    { <<"s", "e", "l", "e", "c", "t", " ", "1">>,
      <<" ", "S", "E", "L", "E", "C", "T", " ", "1", " ">>,
      <<"S", "e", "l", "e", "c", "t">>,
      <<"d", "e", "l", "e", "t", "e">>,
      <<" ", "d", "r", "o", "p">>,
      <<"s", "e", "l", "e", "c">>,
      <<"x", "s", "e", "l", "e", "c", "t">>,
      <<"s", " ", "e", "l", "e", "c", "t">>,
      <<" ">>,
      <<>> }

CallInputs(tool) ==
    CASE tool = "tool-queryDatabase" -> {[NoInput EXCEPT !.query = q] : q \in Queries}
      [] tool = "tool-visualizeCurlingShot" -> ScenarioVizInputs
      [] OTHER -> {[NoInput EXCEPT !.shotId = n] : n \in ShotIds}

InitTools ==
    /\ InitClient /\ ServerIdle /\ SanitizerIdle /\ TurnIdle
    /\ toolCall \in {[tool |-> t, input |-> i, db |-> d] :
                        t \in ToolNames, i \in UNION {CallInputs(u) : u \in ToolNames},
                        d \in DbStates}
    /\ toolCall.input \in CallInputs(toolCall.tool)
    /\ toolResult = [phase |-> "idle", run |-> Returned(NoOutput, <<>>)]

\* the SDK calls execute
Invoke ==
    /\ toolResult.phase = "idle"
    /\ toolResult' = [toolResult EXCEPT !.phase = "running"]
    /\ UNCHANGED toolCall
    /\ UNCHANGED <<clientVars, serverVars, sanitizerVars, turnVars>>

\* the promise of execute settles: fulfilled with an output, or rejected
Settle ==
    /\ toolResult.phase = "running"
    /\ toolResult' = [phase |-> "settled",
                      run |-> Run(toolCall.tool, toolCall.input, toolCall.db)]
    /\ UNCHANGED toolCall
    /\ UNCHANGED <<clientVars, serverVars, sanitizerVars, turnVars>>

NextTools == Invoke \/ Settle

ToolsSpec == InitTools /\ [][NextTools]_vars

----------------------------------------------------------------------------
(* Claims about the client *)

\* C1: over every sequence of message-list updates and observer passes
\* (re-renders of the same list and a list holding the same output-available
\* result twice included), the observer dispatches on the output of a given
\* toolCallId, and so updates the visualization from it, once and no more.
C1_AppliedOnce == \A c \in BagToSet(applyCount) : CopiesIn(c, applyCount) <= 1

\* all three calls of the scenario have reached output-available, and the
\* list holds them and one user message only
ScenarioDone ==
    /\ nextCall = 4
    /\ Len(agentMessages) = 2
    /\ Len(AssistantParts(agentMessages)) = 3
    /\ \A j \in 1..3 :
          /\ AssistantParts(agentMessages)[j].toolCallId = j
          /\ AssistantParts(agentMessages)[j].state = "output-available"

\* no observer pass is due, no lookup is in flight, the turn has finished
ClientSettled == ~observerDue /\ lookups = EmptyBag /\ status = "ready"

\* C2: in the scenario setShotId(42), queryShotDetails(42),
\* visualizeCurlingShot(...), once all client activity has settled the stones
\* of the visualization state are the input stones of the visualizeCurlingShot
\* call.
C2_FinalStones ==
    ScenarioDone /\ ClientSettled
        => currentShot.stones = AssistantParts(agentMessages)[3].input.stones

\* C3 (as stated): in the scenario, once all three calls are
\* output-available and the observer has passed, processedToolCalls holds
\* exactly the three toolCallIds.
C3_ExactlyThree ==
    ScenarioDone /\ ~observerDue => processedToolCalls = {1, 2, 3}

\* C3 (amended): in the scenario, once all three calls are output-available
\* and the observer has passed, processedToolCalls holds exactly the
\* toolCallIds of the setShotId and the visualizeCurlingShot call; that of
\* queryShotDetails is never in it.
C3_ExactlyTheApplied ==
    /\ 2 \notin processedToolCalls
    /\ ScenarioDone /\ ~observerDue => processedToolCalls = {1, 3}

C3_Witness == ScenarioDone /\ ClientSettled /\ processedToolCalls = {1, 3}

\* C4: the visualization state reflects the most recently accepted tool
\* output: a step that changes it writes a result that belongs to the output
\* accepted last (or to no tool output at all), never one that belongs to an
\* output accepted earlier.
C4_NoStaleOverwrite ==
    [][currentShot' # currentShot => shownBy' \in {0, lastAccepted'}]_vars

\* C5: processedToolCalls never shrinks, whatever the client does.
C5_NeverShrinks == [][processedToolCalls \subseteq processedToolCalls']_vars

\* clearHistory has emptied the list while calls were on record
C5_Witness == agentMessages = <<>> /\ processedToolCalls # {}

\* C8: stopping a turn leaves processedToolCalls and the visualization state
\* as they were.
C8_StopKeepsState ==
    [][~cancelled /\ cancelled' => UNCHANGED <<processedToolCalls, currentShot>>]_vars

\* a turn was stopped with a call unresolved, a shot being on display
C8_Witness ==
    cancelled /\ Pending(agentMessages) /\ ~currentShot.null

\* a settled queryShotDetails call for a shot the database does not hold
NotFoundPart(part) ==
    /\ part.type = "tool-queryShotDetails"
    /\ part.input.shotId \notin DbShots
    /\ part.state # "input-available"

\* C14: when the database holds no shot with the requested id (9999),
\* queryShotDetails settles with an output (no error state) that has success
\* false and the error "not found"; the arrival of that output leaves the
\* visualization state as it was, and so does an observer pass over a list
\* whose only outputs not on record are of this kind.
C14_NotFound ==
    [][ /\ \A i \in DOMAIN agentMessages' : \A j \in DOMAIN agentMessages'[i].parts :
             LET part == agentMessages'[i].parts[j]
             IN  NotFoundPart(part) =>
                   /\ part.state = "output-available"
                   /\ ~part.output.success
                   /\ part.output.error = "not found"
                   /\ agentMessages' # agentMessages => currentShot' = currentShot
        /\ /\ observerDue
           /\ \A k \in DOMAIN AssistantParts(agentMessages) :
                 Unprocessed(AssistantParts(agentMessages)[k], processedToolCalls)
                     => NotFoundPart(AssistantParts(agentMessages)[k])
           /\ ObserverPass
           => currentShot' = currentShot
      ]_vars

\* the not-found output has arrived and the observer has passed over it, a
\* shot being on display
C14_Witness ==
    /\ ~observerDue
    /\ ~currentShot.null
    /\ \E k \in DOMAIN AssistantParts(agentMessages) :
          NotFoundPart(AssistantParts(agentMessages)[k])

\* the observer has a branch for the tool of the part (server.ts:455-490)
Recognized(part) == part.type \in {"tool-visualizeCurlingShot", "tool-setShotId"}

\* C20: an output-available part of a tool the observer has no branch for is
\* a no-op: a pass over a list whose outputs not on record are all of such
\* tools leaves the visualization state and the shot id unchanged and starts
\* no lookup.
C20_UnrecognizedNoOp ==
    [][ /\ observerDue
        /\ \A k \in DOMAIN AssistantParts(agentMessages) :
              Unprocessed(AssistantParts(agentMessages)[k], processedToolCalls)
                  => ~Recognized(AssistantParts(agentMessages)[k])
        /\ ObserverPass
        => UNCHANGED <<currentShot, shotId, lookups>>
      ]_vars

\* the observer has passed over a successful queryShotDetails output
C20_Witness ==
    /\ ~observerDue
    /\ \E k \in DOMAIN AssistantParts(agentMessages) :
          LET part == AssistantParts(agentMessages)[k]
          IN  /\ part.type = "tool-queryShotDetails"
              /\ part.state = "output-available"
              /\ part.output.success

\* C19: the observer examines every assistant message on every pass: a pass
\* dispatches on every output-available part of a recognized tool whose
\* toolCallId is not in processedToolCalls, and records it, wherever in the
\* list its message stands, later messages or not.
C19_EveryMessage ==
    [][ ObserverPass =>
          \A k \in DOMAIN AssistantParts(agentMessages) :
             LET part == AssistantParts(agentMessages)[k]
             IN  Unprocessed(part, processedToolCalls) /\ Recognized(part) =>
                   /\ part.toolCallId \in processedToolCalls'
                   /\ CopiesIn(part.toolCallId, applyCount')
                         > CopiesIn(part.toolCallId, applyCount)
      ]_vars

\* an output was applied while a later message stood behind its own
C19_Witness ==
    /\ appliedBehind # {}
    /\ appliedBehind \subseteq processedToolCalls
    /\ Last(agentMessages).role = "user"

\* the successful setShotId outputs a pass over the list would accept
NewSetShotIds ==
    SelectSeq(AssistantParts(agentMessages),
              LAMBDA p : /\ Unprocessed(p, processedToolCalls)
                         /\ p.type = "tool-setShotId"
                         /\ p.output.success)

\* C21: a pass that accepts a successful setShotId output carrying n starts
\* a lookup keyed by n, and the shot id becomes the n of the output accepted
\* last; a lookup started for a shot the database holds leads to a
\* visualization state that is the record and the stones returned for n.
C21_SetShotIdLoads ==
    /\ [][ observerDue /\ NewSetShotIds # <<>> /\ ObserverPass =>
             /\ shotId' = Last(NewSetShotIds).output.shotId
             /\ \A k \in DOMAIN NewSetShotIds :
                   BagIn(Lookup(NewSetShotIds[k].output.shotId,
                                NewSetShotIds[k].toolCallId), lookups')
          ]_vars
    /\ \A n \in DbShots : \A c \in 1..MaxCalls :
          BagIn(Lookup(n, c), lookups) ~> currentShot = ShotFromData(ApiShot(n))

\* the lookup started by the setShotId output of call 1 has been answered and
\* its data is on display
C21_Witness ==
    /\ 1 \in processedToolCalls
    /\ shownBy = 1
    /\ shotId \in DbShots
    /\ currentShot = ShotFromData(ApiShot(shotId))
    /\ lookups = EmptyBag

\* the successful visualization outputs a pass over the list would accept
NewVisualizations ==
    SelectSeq(AssistantParts(agentMessages),
              LAMBDA p : /\ Unprocessed(p, processedToolCalls)
                         /\ p.type = "tool-visualizeCurlingShot"
                         /\ p.output.success
                         /\ p.output.visualization # {})

\* C22: accepting a visualization output replaces the visualization state
\* wholesale: afterwards it consists of the stones and the shot metadata of
\* that output, and the record a lookup had loaded is gone.
C22_Wholesale ==
    [][ observerDue /\ NewVisualizations # <<>> /\ ObserverPass =>
          \A viz \in Last(NewVisualizations).output.visualization :
             /\ ~currentShot'.null
             /\ currentShot'.stones = viz.stones
             /\ currentShot'.shotInfo = {viz.shotId}
             /\ currentShot'.shot = {}
      ]_vars

\* every lookup has been answered, the one started on mount included, and
\* the state on display is that of a visualization output accepted later
C22_Witness ==
    /\ lookups = EmptyBag
    /\ ~currentShot.null
    /\ currentShot.shot = {}
    /\ currentShot.shotInfo # {}
    /\ shownBy \in processedToolCalls

\* the part of an assistant message whose output the observer may apply
Applicable(part) ==
    /\ isToolUIPart(part)
    /\ part.state = "output-available"
    /\ part.output.success
    /\ Recognized(part)

\* C23: the processed set is exactly the set of calls whose output the
\* observer applied, and a call enters it only through a part of an assistant
\* message that is output-available and carries a true success flag.
C23_ProcessedIffApplied ==
    [][ /\ processedToolCalls' = BagToSet(applyCount')
        /\ \A c \in processedToolCalls' \ processedToolCalls :
              \E i \in DOMAIN agentMessages :
                 /\ agentMessages[i].role = "assistant"
                 /\ \E j \in DOMAIN agentMessages[i].parts :
                       /\ agentMessages[i].parts[j].toolCallId = c
                       /\ Applicable(agentMessages[i].parts[j])
      ]_vars

\* an applied call is recorded and the observer has come to rest
C23_Witness ==
    /\ processedToolCalls # {}
    /\ processedToolCalls = BagToSet(applyCount)
    /\ ~observerDue
    /\ status = "ready"

\* C24: once every lookup in flight has been answered, the visualization
\* state shows the data of the tracked shot id, whatever the order in which
\* the answers arrived. The states considered are those in which no tool
\* output has been applied, so every lookup came from the mount, the shot-id
\* input or the effect on the shot id, and the tracked shot is one the
\* database holds, so the lookups of it succeeded.
C24_TrackedShotShown ==
    /\ lookups = EmptyBag
    /\ processedToolCalls = {}
    /\ shotId \in DbShots
    => currentShot = ShotFromData(ApiShot(shotId))

\* the turns started so far: one per user message sent with sendMessage
TurnsStarted == Len(SelectSeq(agentMessages, LAMBDA m : m.role = "user"))

\* C25: the client starts a turn only in response to a user submission: the
\* turns started never outnumber the submissions, so no turn follows from a
\* setShotId output whose lookup failed.
C25_OnlyUserTurns == TurnsStarted <= submits

\* C26: the list of tools requiring confirmation equals the set of
\* registered tools without execute, both being empty, and in every reachable
\* state no tool call awaits confirmation, so the message input is never
\* disabled by a pending confirmation.
C26_NoConfirmation ==
    /\ toolsRequiringConfirmation = {t \in ToolNames : ~HasExecute(t)}
    /\ toolsRequiringConfirmation = {}
    /\ ~pendingToolCallConfirmation(agentMessages)

\* a setShotId call has streamed in without its result, and the input stays
\* enabled
C26_Witness ==
    /\ \E i \in DOMAIN agentMessages : \E j \in DOMAIN agentMessages[i].parts :
          /\ agentMessages[i].parts[j].type = "tool-setShotId"
          /\ agentMessages[i].parts[j].state = "input-available"
    /\ ~pendingToolCallConfirmation(agentMessages)

----------------------------------------------------------------------------
(* Claims about the server turn *)

\* C6: the model/tool loop of a turn performs at most 10 steps, and a turn
\* that ran into the step bound ends with a normal finish, not with an error.
C6_StepBound ==
    /\ StepsBegun <= 10
    /\ stage = "done" /\ steps = 10 => finish = "finish"

\* the model asked for a tool call in the tenth step too, and the turn is over
C6_Witness == stage = "done" /\ steps = 10 /\ requested > 0 /\ finish = "finish"

\* C7: once cancellation has been signalled, no further model step and no
\* further tool execution is started in the turn.
C7_AbortStopsTurn ==
    [][aborted => StepsBegun' = StepsBegun /\ running' <= running]_vars

\* C13: a call to a tool that requires confirmation, for which no decision
\* is present, is never executed; it halts the step loop, and the turn ends
\* with a normal finish and the call still input-available.
C13_ConfirmationHalts ==
    awaiting > 0 =>
        /\ started = requested - awaiting
        /\ ~(stage = "loop" /\ phase = "model")
        /\ stage = "done" => finish = "finish" /\ running = 0

\* a turn is over whose last step called a tool awaiting confirmation next to
\* one that was executed, short of the step bound
C13_Witness ==
    /\ stage = "done" /\ finish = "finish"
    /\ awaiting > 0 /\ started > 0
    /\ steps > 1 /\ steps < StepLimit

\* C18: calls of one step may execute at the same time, but a step of the
\* model loop begins only when no tool execution of the step before is
\* unsettled and the step before is over.
C18_StepsSequential ==
    [][StepsBegun' > StepsBegun => running = 0 /\ phase = "model"]_vars

\* two executions of one step are under way at once, in a later step
C18_Witness == running >= 2 /\ steps > 0

----------------------------------------------------------------------------
(* Claims about sanitization *)

\* C9: sanitizing twice gives what sanitizing once gives.
C9_Idempotent == passes = 2 => cleanedMessages = firstClean

\* a history that lost a part was sanitized a second time
C9_Witness == passes = 2 /\ firstClean # history

\* the parts of a history that are no trailing incomplete part: the longest
\* prefix of the parts that does not end with an incomplete one
RECURSIVE KeptParts(_)
KeptParts(parts) ==
    IF parts = <<>> \/ ~Incomplete(Last(parts)) THEN parts ELSE KeptParts(Front(parts))

\* C10: sanitization removes the incomplete tool-invocation parts at the tail
\* of the history (with a message that becomes empty), leaves every other
\* part, the interior incomplete ones included, unchanged and in place, and
\* keeps the remaining messages in their order.
C10_TrailingOnly ==
    passes >= 1 =>
        /\ AllParts(firstClean) = KeptParts(AllParts(history))
        /\ Len(firstClean) <= Len(history)
        /\ \A i \in DOMAIN firstClean :
              /\ firstClean[i].role = history[i].role
              /\ firstClean[i].parts # <<>>
              /\ firstClean[i].parts =
                    SubSeq(history[i].parts, 1, Len(firstClean[i].parts))
              /\ i < Len(firstClean) => firstClean[i] = history[i]

\* a history with an interior incomplete part and a trailing one, sanitized
C10_Witness ==
    /\ passes >= 1
    /\ firstClean # history
    /\ \E j \in DOMAIN AllParts(firstClean) : Incomplete(AllParts(firstClean)[j])

----------------------------------------------------------------------------
(* Claims about the tools *)

\* C15: for every registered tool and every input, execute does not throw,
\* and an execution that met a failure of the query interface (the binding
\* env.DB missing when it was read, or a database call throwing) returns
\* {success: false, error}.
C15_FailureContained ==
    toolResult.phase = "settled" =>
        /\ ~toolResult.run.threw
        /\ \/ toolCall.db = "missing" /\ "binding" \in Range(toolResult.run.log)
           \/ toolCall.db = "throws" /\ "call" \in Range(toolResult.run.log)
           => /\ ~toolResult.run.output.success
              /\ toolResult.run.output.error # "none"

\* a database call threw inside queryShotDetails, and inside queryDatabase
C15_Witness ==
    /\ toolResult.phase = "settled"
    /\ toolCall.db = "throws"
    /\ toolCall.tool \in {"tool-queryShotDetails", "tool-queryDatabase"}
    /\ toolResult.run.log # <<>> /\ Last(toolResult.run.log) = "call"
    /\ toolResult.run.output.error = "db error"

\* C16: queryDatabase is read-only: for a query whose trimmed, lower-cased
\* text does not start with "select" the database is not called and the
\* output is {success: false, error}; the query text is checked before the
\* binding is looked at.
C16_ReadOnly ==
    toolResult.phase = "settled" /\ toolCall.tool = "tool-queryDatabase" =>
        /\ Head(toolResult.run.log) = "check"
        /\ ~startsWith(toLowerCase(trim(toolCall.input.query)), Select) =>
              /\ toolResult.run.log = <<"check">>
              /\ ~toolResult.run.threw
              /\ ~toolResult.run.output.success
              /\ toolResult.run.output.error = "not select"

\* "  drop" was refused although the binding is missing
C16_Witness ==
    /\ toolResult.phase = "settled" /\ toolCall.tool = "tool-queryDatabase"
    /\ toolCall.input.query = <<" ", "d", "r", "o", "p">>
    /\ toolCall.db = "missing"
    /\ toolResult.run.output.error = "not select"

----------------------------------------------------------------------------
(* Claims about the pipeline of a turn *)

\* processToolCalls has returned
PassOver == turnStage \in {"loop", "done"}

\* C11: after the pass of processToolCalls every tool call of the list it was
\* given is output-available or output-error, or is input-available and is a
\* call to a tool that requires confirmation on which no decision was given.
C11_TerminalOrAwaiting ==
    PassOver =>
        \A k \in DOMAIN AllParts(turnMessages) :
            LET part == AllParts(turnMessages)[k]
            IN  isToolUIPart(part) =>
                  \/ part.state \in {"output-available", "output-error"}
                  \/ /\ part.state = "input-available"
                     /\ part.type \in ConfirmTools
                     /\ DecisionOn(part) = "none"

\* the pass resolved a call and left another waiting for its confirmation
C11_Witness ==
    /\ PassOver
    /\ outStream # <<>>
    /\ \E k \in DOMAIN AllParts(turnMessages) :
          AllParts(turnMessages)[k].state = "input-available"

\* C12: when execute throws during the pass, the list processToolCalls
\* returns holds an output-error part for that call, no exception reaches the
\* caller, and the other calls of the pass are resolved all the same.
C12_ThrowContained ==
    /\ turnStage # "failed"
    /\ PassOver =>
          \A k \in DOMAIN AllParts(cleanedMessages) :
             LET was == AllParts(cleanedMessages)[k]
                 now == AllParts(turnMessages)[k]
             IN  ShouldExecute(was, DecisionOn(was)) =>
                   IF was.toolCallId \in failing
                   THEN now.state = "output-error" /\ now.output.error = "threw"
                   ELSE now.state = "output-available"

\* the first call of the pass threw, a later one was executed
C12_Witness ==
    /\ PassOver
    /\ \E k, l \in DOMAIN AllParts(cleanedMessages) :
          /\ k < l
          /\ ShouldExecute(AllParts(cleanedMessages)[k], DecisionOn(AllParts(cleanedMessages)[k]))
          /\ ShouldExecute(AllParts(cleanedMessages)[l], DecisionOn(AllParts(cleanedMessages)[l]))
          /\ AllParts(cleanedMessages)[k].toolCallId \in failing
          /\ AllParts(turnMessages)[k].state = "output-error"
          /\ AllParts(turnMessages)[l].state = "output-available"

RECURSIVE ProcessAll(_, _)
\* the list with the first n of its parts resolved
ProcessAll(msgs, n) ==
    IF n = 0 THEN msgs
    ELSE LET done == ProcessAll(msgs, n - 1)
             pos == Positions(msgs)[n]
             part == done[pos[1]].parts[pos[2]]
         IN  [done EXCEPT ![pos[1]].parts[pos[2]] =
                 Resolve(part, DecisionOn(part), part.toolCallId \in failing)]

\* C17: the stages of a turn run in the order sanitize, resolve pending
\* calls, model loop: the processor works on the sanitized list, every event
\* it writes to the outgoing stream precedes every event of the model loop,
\* and the model is called with the processed list.
C17_StagesInOrder ==
    /\ turnStage \in {"process", "loop", "done"} => cleanedMessages = cleanupMessages(history)
    /\ turnStage \in {"sanitize", "process"} => ModelEvents = <<>> /\ modelMessages = <<>>
    /\ \A a, b \in DOMAIN outStream :
          a < b /\ outStream[b].from = "processor" => outStream[a].from = "processor"
    /\ PassOver =>
          modelMessages =
              ProcessAll(cleanupMessages(history),
                         Len(Positions(cleanupMessages(history))))

\* the processor resolved a call, the model loop has written events, and the
\* model got a list that is neither the stored nor the sanitized one
C17_Witness ==
    /\ turnStage = "done"
    /\ ModelEvents # <<>>
    /\ Len(outStream) > Len(ModelEvents)
    /\ modelMessages # history
    /\ modelMessages # cleanedMessages

====
